---- MODULE Spec2Model ----
(***************************************************************************)
(* Order placement, inventory deduction and product-image bookkeeping of   *)
(* the SimpleShop API (jonbarlo/onlineshop-node-api).                      *)
(*                                                                         *)
(* The data store is the state: products, variants, orders (with their     *)
(* items) and product images.  Row ids are autoincrement keys, modelled as *)
(* positions in a sequence (orders, variants, images) or as the fixed keys *)
(* of the product table.  Money is counted in minor units, so that         *)
(* unitPrice * quantity is exact.                                          *)
(*                                                                         *)
(*   Spec        one request at a time: every handler is one atomic step   *)
(*   SpecConc    status-update handlers interleave at their await points   *)
(*   SpecImages  the image routes, one request at a time                   *)
(*   SpecImagesConc  image POST and PUT interleave at their await points   *)
(*   SpecAdmin   the admin router behind its token check, one at a time     *)
(*   SpecStock   status updates interleaved with admin stock updates       *)
(*   SpecLedger  orders and status updates on the fully stocked catalogue  *)
(***************************************************************************)
EXTENDS Integers, Sequences, FiniteSets, TLC

VARIABLES
    products,   \* Product rows: id -> [price, quantity, status, isActive]
    variants,   \* ProductVariant rows, id = position
    orders,     \* Order rows with their OrderItem rows, id = position
    images,     \* ProductImage rows, id = position (creation order)
    handlers,   \* in-flight requests of the interleaved specifications
    last        \* the response to the request handled last

vars == <<products, variants, orders, images, handlers, last>>

(***************************************************************************)
(* Bounds of the model.                                                    *)
(***************************************************************************)
MaxQty == 2         \* largest stock a product or variant starts with
MaxLineQty == 2     \* largest quantity of one order line
MaxLines == 2       \* most lines in one order request
MaxOrders == 1      \* most orders created in one behaviour of Spec
MaxConcOrders == 2  \* most orders created in one behaviour of SpecConc
MaxImages == 3      \* most images created in one behaviour
MaxSort == 1        \* largest sortOrder sent in a request
MaxConcImages == 2  \* most images created in one behaviour of SpecImagesConc
MaxReorder == 2     \* longest imageIds array of a reorder request
MaxAdminOrders == 1 \* most orders created in one behaviour of SpecAdmin
MaxStockOrders == 2 \* most orders created in one behaviour of SpecStock
MaxLedgerOrders == 2 \* most orders created in one behaviour of SpecLedger

ProductIds == {1, 2}                 \* products that have a row
RequestProductIds == {1, 2, 3}       \* ids a request may name; 3 has no row
NoSel == "none"                      \* selectedColor / selectedSize absent
NoId == 0                            \* null foreign key
\* the color/size selections a line may carry
Selections == { <<NoSel, NoSel>>, <<"Red", "M">> }
HandlerIds == {1, 2}

ORDER_STATUS == [NEW |-> "new", PAID |-> "paid",
                 READY_FOR_DELIVERY |-> "ready_for_delivery"]
OrderStatuses == {"new", "paid", "ready_for_delivery"}

InitPrice == [p \in ProductIds |-> 2 * p + 1]

(***************************************************************************)
(* Helpers.                                                                *)
(***************************************************************************)
Min(S) == CHOOSE x \in S : \A y \in S : x <= y

RECURSIVE SumSeq(_)
SumSeq(s) == IF s = <<>> THEN 0 ELSE Head(s) + SumSeq(Tail(s))

StatusFor_AlwaysAvailable(q) == "available"

\* status: quantity > 0 ? 'available' : 'sold_out'
StatusFor(q) == IF q > 0 THEN "available" ELSE "sold_out"

\* a response: the route, its outcome, the line an inventory check failed
\* on and the number of ProductVariant rows the request created
Response(op, result, line, created) ==
    [op |-> op, result |-> result, line |-> line, created |-> created]

NoResponse == Response("none", "none", 0, 0)

(***************************************************************************)
(* POST /api/orders                                                        *)
(***************************************************************************)
Line ==
    { [productId |-> p, quantity |-> q,
       selectedColor |-> sel[1], selectedSize |-> sel[2]] :
         p \in RequestProductIds, q \in 1..MaxLineQty, sel \in Selections }

Requests == UNION { [1..n -> Line] : n \in 1..MaxLines }

FetchProducts_IgnoresActive(items) ==
    { p \in ProductIds :
        /\ \E i \in DOMAIN items : items[i].productId = p
        /\ products[p].status = "available" }

\* prisma.product.findMany({ id in productIds, isActive, status available })
FetchProducts(items) ==
    { p \in ProductIds :
        /\ \E i \in DOMAIN items : items[i].productId = p
        /\ products[p].isActive
        /\ products[p].status = "available" }

\* products.length !== productIds.length, productIds = items.map(productId)
ProductCountMismatch(items) ==
    Cardinality(FetchProducts(items)) # Len(items)

\* item.selectedColor && item.selectedSize
HasSelection(item) ==
    item.selectedColor # NoSel /\ item.selectedSize # NoSel

\* prisma.productVariant.findFirst({ productId, color, size, isActive })
MatchingVariants(vs, productId, color, size) ==
    { v \in DOMAIN vs :
        /\ vs[v].productId = productId
        /\ vs[v].color = color
        /\ vs[v].size = size
        /\ vs[v].isActive }

NewVariant_Stocked(productId, color, size) ==
    [productId |-> productId, color |-> color, size |-> size,
     quantity |-> 1, isActive |-> TRUE]

NewVariant(productId, color, size) ==
    [productId |-> productId, color |-> color, size |-> size,
     quantity |-> 0, isActive |-> TRUE]

\* findOrCreateProductVariant: the variant table afterwards and the row id
FindOrCreateProductVariant(vs, productId, color, size) ==
    LET found == MatchingVariants(vs, productId, color, size) IN
    IF found # {}
    THEN [variants |-> vs, id |-> Min(found), created |-> 0]
    ELSE [variants |-> Append(vs, NewVariant(productId, color, size)),
          id |-> Len(vs) + 1, created |-> 1]

ItemTotal_IgnoresQuantity(unitPrice, quantity) == unitPrice

ItemTotal(unitPrice, quantity) == unitPrice * quantity

VariantShort_Unchecked(variant, item) == FALSE

VariantShort(variant, item) == variant.quantity < item.quantity

ProductShort_Reserving(product, item) ==
    product.quantity
      - SumSeq([id \in DOMAIN orders |->
                  IF orders[id].status = ORDER_STATUS.NEW
                  THEN SumSeq([i \in DOMAIN orders[id].items |->
                          IF orders[id].items[i].productId = item.productId
                          THEN orders[id].items[i].quantity ELSE 0])
                  ELSE 0])
      < item.quantity

ProductShort(product, item) == product.quantity < item.quantity

\* the loop over the items: inventory checks, processedItems, totalAmount
RECURSIVE ProcessItems(_, _, _, _, _, _, _)
ProcessItems(items, fetched, i, vs, processed, total, created) ==
    IF i > Len(items)
    THEN [result |-> "created", variants |-> vs, items |-> processed,
          totalAmount |-> total, line |-> 0, created |-> created]
    ELSE
    LET item == items[i] IN
    IF item.productId \notin fetched
    THEN [result |-> "error", variants |-> vs, items |-> processed,
          totalAmount |-> total, line |-> i, created |-> created]
    ELSE
    LET product == products[item.productId]
        unitPrice == product.price
        newTotal == total + ItemTotal(unitPrice, item.quantity)
    IN
    IF HasSelection(item)
    THEN
        LET foc == FindOrCreateProductVariant(vs, item.productId,
                       item.selectedColor, item.selectedSize)
            variant == foc.variants[foc.id]
        IN
        IF VariantShort(variant, item)
        THEN [result |-> "insufficient", variants |-> foc.variants,
              items |-> processed, totalAmount |-> newTotal, line |-> i,
              created |-> created + foc.created]
        ELSE ProcessItems(items, fetched, i + 1, foc.variants,
                 Append(processed,
                    [productId |-> item.productId,
                     productVariantId |-> foc.id,
                     quantity |-> item.quantity,
                     unitPrice |-> unitPrice,
                     selectedColor |-> item.selectedColor,
                     selectedSize |-> item.selectedSize]),
                 newTotal, created + foc.created)
    ELSE
        IF ProductShort(product, item)
        THEN [result |-> "insufficient", variants |-> vs,
              items |-> processed, totalAmount |-> newTotal, line |-> i,
              created |-> created]
        ELSE ProcessItems(items, fetched, i + 1, vs,
                 Append(processed,
                    [productId |-> item.productId,
                     productVariantId |-> NoId,
                     quantity |-> item.quantity,
                     unitPrice |-> unitPrice,
                     selectedColor |-> item.selectedColor,
                     selectedSize |-> item.selectedSize]),
                 newTotal, created)

\* data of tx.order.create: the order row and its nested item rows
NewOrder(r) ==
    [status |-> ORDER_STATUS.NEW, totalAmount |-> r.totalAmount,
     items |-> r.items]

OrderTransaction_NoRollback(os, order, failsAt) ==
    IF failsAt = 0 THEN Append(os, order)
    ELSE IF failsAt = 1 THEN os
    ELSE Append(os, [order EXCEPT
                       !.items = SubSeq(order.items, 1, failsAt - 2)])

\* prisma.$transaction around the nested create: insert 1 is the order
\* row, insert k + 1 the row of item k.  failsAt is the insert that throws,
\* 0 when none does; a throw rolls back every insert of the transaction.
OrderTransaction(os, order, failsAt) ==
    IF failsAt = 0 THEN Append(os, order) ELSE os

\* the whole handler of POST /api/orders
CreateOrder(items) ==
    /\ IF ProductCountMismatch(items)
       THEN /\ last' = Response("create", "product_not_found", 0, 0)
            /\ UNCHANGED <<products, variants, orders>>
       ELSE LET r == ProcessItems(items, FetchProducts(items), 1, variants,
                                  <<>>, 0, 0)
            IN
            /\ variants' = r.variants
            /\ orders' = IF r.result = "created"
                         THEN OrderTransaction(orders, NewOrder(r), 0)
                         ELSE orders
            /\ last' = Response("create", r.result, r.line, r.created)
            /\ UNCHANGED products
    /\ UNCHANGED <<images, handlers>>

\* POST /api/orders when an insert of the transaction throws: the handler
\* has passed every check, the error reaches the error middleware
CreateOrderFails(items, failsAt) ==
    /\ ~ProductCountMismatch(items)
    /\ LET r == ProcessItems(items, FetchProducts(items), 1, variants,
                             <<>>, 0, 0)
       IN
       /\ r.result = "created"
       /\ failsAt \in 1..(Len(r.items) + 1)
       /\ variants' = r.variants
       /\ orders' = OrderTransaction(orders, NewOrder(r), failsAt)
       /\ last' = Response("create", "failed", 0, r.created)
    /\ UNCHANGED <<products, images, handlers>>

ReadOrder_VariantStock(id) ==
    [status |-> orders[id].status,
     items |-> [i \in DOMAIN orders[id].items |->
        [productId |-> orders[id].items[i].productId,
         productVariantId |-> orders[id].items[i].productVariantId,
         quantity |-> orders[id].items[i].quantity,
         product |->
            [quantity |->
                IF orders[id].items[i].productVariantId # NoId
                THEN variants[orders[id].items[i].productVariantId].quantity
                ELSE products[orders[id].items[i].productId].quantity,
             status |-> products[orders[id].items[i].productId].status]]]]

(***************************************************************************)
(* PUT /api/admin/orders/:id/status                                        *)
(***************************************************************************)
\* prisma.order.findUnique with items and each item's product: the values
\* the handler holds from then on
ReadOrder(id) ==
    [status |-> orders[id].status,
     items |-> [i \in DOMAIN orders[id].items |->
        [productId |-> orders[id].items[i].productId,
         productVariantId |-> orders[id].items[i].productVariantId,
         quantity |-> orders[id].items[i].quantity,
         product |->
            [quantity |-> products[orders[id].items[i].productId].quantity,
             status |-> products[orders[id].items[i].productId].status]]]]

IsFreshPaid_AnyPaid(status, existingOrder) == status = ORDER_STATUS.PAID

\* status === ORDER_STATUS.PAID && existingOrder.status !== ORDER_STATUS.PAID
IsFreshPaid(status, existingOrder) ==
    status = ORDER_STATUS.PAID /\ existingOrder.status # ORDER_STATUS.PAID

ShortLines_FirstOnly(existingOrder) ==
    { i \in DOMAIN existingOrder.items :
        /\ i = 1
        /\ existingOrder.items[i].product.quantity
              < existingOrder.items[i].quantity }

\* the lines on which item.product.quantity < item.quantity
ShortLines(existingOrder) ==
    { i \in DOMAIN existingOrder.items :
        existingOrder.items[i].product.quantity
            < existingOrder.items[i].quantity }

FirstShortLine_NoCheck(existingOrder) == 0

\* the line the check loop returns on, 0 when every line passes
FirstShortLine(existingOrder) ==
    IF ShortLines(existingOrder) = {} THEN 0
    ELSE Min(ShortLines(existingOrder))

NewQuantity_ByOne(item) == item.product.quantity - 1

\* const newQuantity = item.product.quantity - item.quantity
NewQuantity(item) == item.product.quantity - item.quantity

\* tx.product.update for the items from position i on, in order
RECURSIVE DeductInventory(_, _, _)
DeductInventory(ps, existingOrder, i) ==
    IF i > Len(existingOrder.items) THEN ps
    ELSE LET item == existingOrder.items[i]
             newQuantity == NewQuantity(item)
         IN DeductInventory(
                [ps EXCEPT ![item.productId].quantity = newQuantity,
                           ![item.productId].status = StatusFor(newQuantity)],
                existingOrder, i + 1)

SetOrderStatus_Reprices(os, id, status) ==
    [os EXCEPT ![id].status = status,
               ![id].totalAmount =
                  SumSeq([i \in DOMAIN os[id].items |->
                            products[os[id].items[i].productId].price
                              * os[id].items[i].quantity])]

\* order.update({ where: { id }, data: { status } })
SetOrderStatus(os, id, status) == [os EXCEPT ![id].status = status]

\* the whole handler, run without interruption
UpdateOrderStatus(id, status) ==
    /\ IF id \notin DOMAIN orders
       THEN /\ last' = Response("status", "not_found", 0, 0)
            /\ UNCHANGED <<products, orders>>
       ELSE LET existingOrder == ReadOrder(id) IN
            IF IsFreshPaid(status, existingOrder)
            THEN IF FirstShortLine(existingOrder) # 0
                 THEN /\ last' = Response("status", "insufficient",
                                          FirstShortLine(existingOrder), 0)
                      /\ UNCHANGED <<products, orders>>
                 ELSE /\ products' = DeductInventory(products,
                                                     existingOrder, 1)
                      /\ orders' = SetOrderStatus(orders, id, status)
                      /\ last' = Response("status", "deducted", 0, 0)
            ELSE /\ orders' = SetOrderStatus(orders, id, status)
                 /\ last' = Response("status",
                               IF status = ORDER_STATUS.PAID
                               THEN "already_paid" ELSE "updated", 0, 0)
                 /\ UNCHANGED products
    /\ UNCHANGED <<variants, images, handlers>>

\* order ids a request may name: the existing ones and one that has no row
RequestOrderIds == 1..(Len(orders) + 1)

(***************************************************************************)
(* Initial data store: a seeded catalogue, no orders, no images.           *)
(***************************************************************************)
\* POST /api/admin/products: the row prisma.product.create stores for a
\* validated request (isActive defaults to true)
CreateProductRow(price, quantity) ==
    [price |-> price, quantity |-> quantity, status |-> StatusFor(quantity),
     isActive |-> TRUE]

SeedVariants ==
    { <<>> } \cup
    { << [productId |-> 1, color |-> "Red", size |-> "M",
          quantity |-> q, isActive |-> TRUE] >> : q \in 1..MaxQty }

Init ==
    /\ products \in
         { [p \in ProductIds |->
               [CreateProductRow(InitPrice[p], qs[p])
                  EXCEPT !.isActive = (p = 1 \/ act)]] :
             qs \in [ProductIds -> 0..MaxQty], act \in BOOLEAN }
    /\ variants \in SeedVariants
    /\ orders = <<>>
    /\ images = <<>>
    /\ handlers = [h \in HandlerIds |-> [pc |-> "idle"]]
    /\ last = NoResponse

Next ==
    \/ \E items \in Requests : Len(orders) < MaxOrders /\ CreateOrder(items)
    \/ \E id \in RequestOrderIds, status \in OrderStatuses :
          UpdateOrderStatus(id, status)
    \/ \E items \in Requests, failsAt \in 1..(MaxLines + 1) :
          CreateOrderFails(items, failsAt)

Spec == Init /\ [][Next]_vars

(***************************************************************************)
(* PUT /api/admin/orders/:id/status, interleaved.  The handler awaits the  *)
(* findUnique, runs its checks on the values it read, and then awaits      *)
(* either the $transaction (product updates and order update, committed    *)
(* together) or the single order update.  Another request can be served    *)
(* between the read and the write.                                         *)
(***************************************************************************)
Idle == [pc |-> "idle"]

InFlight(pc, id, status, existingOrder) ==
    [pc |-> pc, id |-> id, status |-> status, existingOrder |-> existingOrder]

Done(id, status, existingOrder, result) ==
    [pc |-> "done", id |-> id, status |-> status,
     existingOrder |-> existingOrder, result |-> result]

NoOrder == [status |-> "none", items |-> <<>>]

\* up to the first write: findUnique, the 404, the inventory check loop
BeginUpdateOrderStatus(h, id, status) ==
    /\ handlers[h].pc \in {"idle", "done"}
    /\ handlers' = [handlers EXCEPT ![h] =
         IF id \notin DOMAIN orders
         THEN Done(id, status, NoOrder, "not_found")
         ELSE LET existingOrder == ReadOrder(id) IN
              IF IsFreshPaid(status, existingOrder)
              THEN IF FirstShortLine(existingOrder) # 0
                   THEN Done(id, status, existingOrder, "insufficient")
                   ELSE InFlight("tx", id, status, existingOrder)
              ELSE InFlight("update", id, status, existingOrder)]
    /\ UNCHANGED <<products, variants, orders, images, last>>

\* prisma.$transaction: every product update, then the order update
CommitDeduction(h) ==
    /\ handlers[h].pc = "tx"
    /\ products' = DeductInventory(products, handlers[h].existingOrder, 1)
    /\ orders' = SetOrderStatus(orders, handlers[h].id, handlers[h].status)
    /\ handlers' = [handlers EXCEPT ![h] =
         Done(handlers[h].id, handlers[h].status,
              handlers[h].existingOrder, "deducted")]
    /\ UNCHANGED <<variants, images, last>>

\* the else branch: prisma.order.update alone
CommitUpdate(h) ==
    /\ handlers[h].pc = "update"
    /\ orders' = SetOrderStatus(orders, handlers[h].id, handlers[h].status)
    /\ handlers' = [handlers EXCEPT ![h] =
         Done(handlers[h].id, handlers[h].status,
              handlers[h].existingOrder, "updated")]
    /\ UNCHANGED <<products, variants, images, last>>

\* the order requests of SpecConc: one line without color/size selection,
\* on the product the orders compete for
ConcProductIds == {1}

ConcRequests ==
    { << [productId |-> p, quantity |-> q,
          selectedColor |-> NoSel, selectedSize |-> NoSel] >> :
        p \in ConcProductIds, q \in 1..MaxLineQty }

NextConc ==
    \/ \E items \in ConcRequests :
          Len(orders) < MaxConcOrders /\ CreateOrder(items)
    \/ \E h \in HandlerIds, id \in RequestOrderIds, status \in OrderStatuses :
          BeginUpdateOrderStatus(h, id, status)
    \/ \E h \in HandlerIds : CommitDeduction(h)
    \/ \E h \in HandlerIds : CommitUpdate(h)

\* a fully stocked catalogue without variants: where SpecConc and SpecImages
\* start
InitStocked ==
    /\ Init
    /\ \A p \in ProductIds :
          products[p].quantity = MaxQty /\ products[p].isActive
    /\ variants = <<>>

SpecConc == InitStocked /\ [][NextConc]_vars

(***************************************************************************)
(* Product image routes (/admin/products/:id/images...), one request at a  *)
(* time.  An image row is [productId, sortOrder, isPrimary, isActive]; its *)
(* id is its position, which is also its creation order.  imageUrl and     *)
(* altText take no part in any decision and are left out.                  *)
(***************************************************************************)
\* an optional field of a request body: <<>> when the body does not carry
\* it (undefined), <<v>> when it carries v
Unset == <<>>

Optional(S) == {Unset} \cup { <<v>> : v \in S }

\* ensureSinglePrimaryImage: updateMany({ productId, isPrimary: true,
\* id: { not: excludeImageId } }, { isPrimary: false })
ensureSinglePrimaryImage(imgs, productId, excludeImageId) ==
    [i \in DOMAIN imgs |->
        IF /\ imgs[i].productId = productId
           /\ imgs[i].isPrimary
           /\ i # excludeImageId
        THEN [imgs[i] EXCEPT !.isPrimary = FALSE]
        ELSE imgs[i]]

ActiveImages_AnyState(imgs, productId) ==
    { i \in DOMAIN imgs : imgs[i].productId = productId }

\* prisma.productImage.count({ productId, isActive: true })
ActiveImages(imgs, productId) ==
    { i \in DOMAIN imgs : imgs[i].productId = productId /\ imgs[i].isActive }

\* POST /admin/products/:id/images
CreateImage(productId, sortOrder, isPrimary) ==
    /\ IF productId \notin ProductIds
       THEN /\ last' = Response("image_create", "not_found", 0, 0)
            /\ UNCHANGED images
       ELSE LET shouldBePrimary ==
                   isPrimary \/ ActiveImages(images, productId) = {}
                cleared == IF shouldBePrimary
                           THEN ensureSinglePrimaryImage(images, productId,
                                                         NoId)
                           ELSE images
            IN
            /\ images' = Append(cleared,
                            [productId |-> productId,
                             sortOrder |-> sortOrder,
                             isPrimary |-> shouldBePrimary,
                             isActive |-> TRUE])
            /\ last' = Response("image_create", "created", 0, 0)
    /\ UNCHANGED <<products, variants, orders, handlers>>

\* findFirst({ id: imageId, productId })
ImageExists(productId, imageId) ==
    imageId \in DOMAIN images /\ images[imageId].productId = productId

\* updateData: only the fields the body carries
ApplyImageUpdate(image, sortOrder, isPrimary, isActive) ==
    [image EXCEPT
       !.sortOrder = IF sortOrder # Unset THEN sortOrder[1] ELSE @,
       !.isPrimary = IF isPrimary # Unset THEN isPrimary[1] ELSE @,
       !.isActive = IF isActive # Unset THEN isActive[1] ELSE @]

\* PUT /admin/products/:id/images/:imageId
UpdateImage(productId, imageId, sortOrder, isPrimary, isActive) ==
    /\ IF ~ImageExists(productId, imageId)
       THEN /\ last' = Response("image_update", "not_found", 0, 0)
            /\ UNCHANGED images
       ELSE LET cleared == IF isPrimary = <<TRUE>>
                           THEN ensureSinglePrimaryImage(images, productId,
                                                         imageId)
                           ELSE images
            IN
            /\ images' = [cleared EXCEPT ![imageId] =
                            ApplyImageUpdate(@, sortOrder, isPrimary,
                                             isActive)]
            /\ last' = Response("image_update", "updated", 0, 0)
    /\ UNCHANGED <<products, variants, orders, handlers>>

ImageBefore_IgnoresSortOrder(imgs, i, j) == i <= j

\* orderBy: [{ sortOrder: 'asc' }, { createdAt: 'asc' }]
ImageBefore(imgs, i, j) ==
    \/ imgs[i].sortOrder < imgs[j].sortOrder
    \/ imgs[i].sortOrder = imgs[j].sortOrder /\ i <= j

\* findFirst({ productId, isActive: true, id: { not: imageId } }) in that
\* order; NoId when there is none
NextImage(imgs, productId, imageId) ==
    LET others == ActiveImages(imgs, productId) \ {imageId} IN
    IF others = {} THEN NoId
    ELSE CHOOSE i \in others : \A j \in others : ImageBefore(imgs, i, j)

\* DELETE /admin/products/:id/images/:imageId
DeleteImage(productId, imageId) ==
    /\ IF ~ImageExists(productId, imageId)
       THEN /\ last' = Response("image_delete", "not_found", 0, 0)
            /\ UNCHANGED images
       ELSE LET nextImage == IF images[imageId].isPrimary
                             THEN NextImage(images, productId, imageId)
                             ELSE NoId
                promoted == IF nextImage # NoId
                            THEN [images EXCEPT ![nextImage].isPrimary = TRUE]
                            ELSE images
            IN
            /\ images' = [promoted EXCEPT ![imageId].isActive = FALSE]
            /\ last' = Response("image_delete", "deleted", 0, 0)
    /\ UNCHANGED <<products, variants, orders, handlers>>

\* image ids a request may name: the existing ones and one that has no row
RequestImageIds == 1..(Len(images) + 1)

\* the last segment of a PUT /admin/products/:id/images/<segment> path:
\* decimal digits with their value, or the word 'reorder'
IdSegment(n) == [text |-> "digits", value |-> n]

ReorderSegment == [text |-> "reorder", value |-> 0]

\* the PUT routes under /admin/products/:id/images/, in the order in which
\* router.put registers them
PutImageRoutes ==
    << [param |-> TRUE, literal |-> "", handler |-> "update"],
       [param |-> FALSE, literal |-> "reorder", handler |-> "reorder"] >>

\* a ':imageId' parameter matches any one segment, a literal only itself
RouteMatches(route, segment) ==
    route.param \/ segment.text = route.literal

\* Express hands the request to the first registered route that matches
Dispatch(segment) ==
    PutImageRoutes[Min({ k \in DOMAIN PutImageRoutes :
                           RouteMatches(PutImageRoutes[k], segment) })].handler

\* validateImageId: param('imageId').isInt({ min: 1 })
validateImageId(segment) == segment.text = "digits" /\ segment.value >= 1

\* findMany({ id: { in: imageIds }, productId, isActive: true })
ReorderableImages(productId, imageIds) ==
    { i \in ActiveImages(images, productId) :
        \E k \in DOMAIN imageIds : imageIds[k] = i }

\* the handler of PUT /admin/products/:id/images/reorder
ReorderImages(productId, imageIds) ==
    /\ IF productId \notin ProductIds
       THEN /\ last' = Response("image_reorder", "not_found", 0, 0)
            /\ UNCHANGED images
       ELSE IF Cardinality(ReorderableImages(productId, imageIds))
                  # Len(imageIds)
       THEN /\ last' = Response("image_reorder", "invalid", 0, 0)
            /\ UNCHANGED images
       ELSE /\ images' = [i \in DOMAIN images |->
                 IF i \in ReorderableImages(productId, imageIds)
                 THEN [images[i] EXCEPT !.sortOrder =
                         (CHOOSE k \in DOMAIN imageIds : imageIds[k] = i) - 1]
                 ELSE images[i]]
            /\ last' = Response("image_reorder", "reordered", 0, 0)
    /\ UNCHANGED <<products, variants, orders, handlers>>

\* the request PUT /admin/products/:id/images/reorder with body { imageIds }
PutImagesReorder(productId, imageIds) ==
    IF Dispatch(ReorderSegment) = "reorder"
    THEN ReorderImages(productId, imageIds)
    ELSE IF ~validateImageId(ReorderSegment)
    THEN /\ last' = Response("image_update", "validation", 0, 0)
         /\ UNCHANGED <<products, variants, orders, images, handlers>>
    ELSE UpdateImage(productId, ReorderSegment.value, Unset, Unset, Unset)

\* the imageIds arrays a reorder request may carry
ImageIdLists == UNION { [1..n -> RequestImageIds] : n \in 1..MaxReorder }

NextImages ==
    \/ \E productId \in RequestProductIds, sortOrder \in 0..MaxSort,
          isPrimary \in BOOLEAN :
          Len(images) < MaxImages /\ CreateImage(productId, sortOrder,
                                                 isPrimary)
    \/ \E productId \in ProductIds, imageId \in RequestImageIds,
          sortOrder \in Optional(0..MaxSort),
          isPrimary \in Optional(BOOLEAN),
          isActive \in Optional(BOOLEAN) :
          UpdateImage(productId, imageId, sortOrder, isPrimary, isActive)
    \/ \E productId \in ProductIds, imageId \in RequestImageIds :
          DeleteImage(productId, imageId)
    \/ \E productId \in ProductIds, imageIds \in ImageIdLists :
          PutImagesReorder(productId, imageIds)

SpecImages == InitStocked /\ [][NextImages]_vars

(***************************************************************************)
(* POST and PUT of an image, interleaved.  Both handlers await their reads, *)
(* then await ensureSinglePrimaryImage (the un-flag of the other images)   *)
(* when the image is to become primary, then await the create or update    *)
(* that writes the flag.  Nothing ties the two writes together, so another *)
(* request can be served between them.                                     *)
(***************************************************************************)
ImageInFlight(pc, op, productId, imageId, isPrimary, shouldBePrimary) ==
    [pc |-> pc, op |-> op, productId |-> productId, imageId |-> imageId,
     isPrimary |-> isPrimary, shouldBePrimary |-> shouldBePrimary]

ImageDone(op, productId, imageId, isPrimary, result) ==
    [pc |-> "done", op |-> op, productId |-> productId, imageId |-> imageId,
     isPrimary |-> isPrimary, result |-> result]

\* handlers that have read the image count and not yet inserted their row
PendingCreates ==
    { h \in HandlerIds :
        handlers[h].pc \in {"unflag", "write"} /\ handlers[h].op = "create" }

\* POST, up to the first write: product findUnique, count of active images
BeginCreateImage(h, productId, isPrimary) ==
    /\ handlers[h].pc \in {"idle", "done"}
    /\ handlers' = [handlers EXCEPT ![h] =
         IF productId \notin ProductIds
         THEN ImageDone("create", productId, NoId, <<isPrimary>>, "not_found")
         ELSE LET shouldBePrimary ==
                     isPrimary \/ ActiveImages(images, productId) = {}
              IN ImageInFlight(IF shouldBePrimary THEN "unflag" ELSE "write",
                               "create", productId, NoId, <<isPrimary>>,
                               shouldBePrimary)]
    /\ UNCHANGED <<products, variants, orders, images, last>>

\* PUT, up to the first write: findFirst of the image
BeginUpdateImage(h, productId, imageId, isPrimary) ==
    /\ handlers[h].pc \in {"idle", "done"}
    /\ handlers' = [handlers EXCEPT ![h] =
         IF ~ImageExists(productId, imageId)
         THEN ImageDone("update", productId, imageId, isPrimary, "not_found")
         ELSE ImageInFlight(IF isPrimary = <<TRUE>> THEN "unflag" ELSE "write",
                            "update", productId, imageId, isPrimary,
                            isPrimary = <<TRUE>>)]
    /\ UNCHANGED <<products, variants, orders, images, last>>

\* await ensureSinglePrimaryImage(productId) in POST,
\* await ensureSinglePrimaryImage(productId, imageId) in PUT
UnflagOtherImages(h) ==
    /\ handlers[h].pc = "unflag"
    /\ images' = ensureSinglePrimaryImage(images, handlers[h].productId,
                                          handlers[h].imageId)
    /\ handlers' = [handlers EXCEPT ![h].pc = "write"]
    /\ UNCHANGED <<products, variants, orders, last>>

\* await prisma.productImage.create / prisma.productImage.update
WriteImage(h) ==
    /\ handlers[h].pc = "write"
    /\ IF handlers[h].op = "create"
       THEN /\ images' = Append(images,
                            [productId |-> handlers[h].productId,
                             sortOrder |-> 0,
                             isPrimary |-> handlers[h].shouldBePrimary,
                             isActive |-> TRUE])
            /\ handlers' = [handlers EXCEPT ![h] =
                 ImageDone("create", handlers[h].productId, Len(images) + 1,
                           handlers[h].isPrimary, "created")]
       ELSE /\ images' = [images EXCEPT ![handlers[h].imageId] =
                            ApplyImageUpdate(@, Unset, handlers[h].isPrimary,
                                             Unset)]
            /\ handlers' = [handlers EXCEPT ![h] =
                 ImageDone("update", handlers[h].productId,
                           handlers[h].imageId, handlers[h].isPrimary,
                           "updated")]
    /\ UNCHANGED <<products, variants, orders, last>>

NextImagesConc ==
    \/ \E h \in HandlerIds, productId \in ConcProductIds,
          isPrimary \in BOOLEAN :
          /\ Len(images) + Cardinality(PendingCreates) < MaxConcImages
          /\ BeginCreateImage(h, productId, isPrimary)
    \/ \E h \in HandlerIds, productId \in ConcProductIds,
          imageId \in RequestImageIds, isPrimary \in Optional(BOOLEAN) :
          BeginUpdateImage(h, productId, imageId, isPrimary)
    \/ \E h \in HandlerIds : UnflagOtherImages(h)
    \/ \E h \in HandlerIds : WriteImage(h)

SpecImagesConc == InitStocked /\ [][NextImagesConc]_vars

(***************************************************************************)
(* The admin router: router.use(authenticateToken), router.use(requireAdmin)*)
(* in front of every route, then the order and product routes.             *)
(***************************************************************************)
\* the Authorization header: absent, or a bearer token with the state of
\* its signature and of its exp claim
Tokens == [signature : {"valid", "invalid"}, expired : BOOLEAN]

Authorizations == Optional(Tokens)

jwtVerify_IgnoresExpiry(token) ==
    IF token.signature # "valid" THEN "JsonWebTokenError" ELSE "decoded"

\* jwt.verify(token, config.jwt.secret): the payload, or the error thrown
jwtVerify(token) ==
    IF token.signature # "valid" THEN "JsonWebTokenError"
    ELSE IF token.expired THEN "TokenExpiredError"
    ELSE "decoded"

\* authenticateToken: "next" when it sets req.user and calls next(), else
\* the response it sends (both error classes are answered with 401)
authenticateToken(authorization) ==
    IF authorization = Unset THEN "token_required"
    ELSE IF jwtVerify(authorization[1]) = "decoded" THEN "next"
    ELSE "token_invalid"

\* requireAdmin: every authenticated user is an admin; 401 without req.user
requireAdmin(user) == IF user THEN "next" ELSE "auth_required"

\* a request to a route of the admin router: the handler runs only behind
\* both middlewares
AdminRoute(authorization, handler) ==
    IF /\ authenticateToken(authorization) = "next"
       /\ requireAdmin(TRUE) = "next"
    THEN handler
    ELSE /\ last' = Response("admin", "unauthorized", 0, 0)
         /\ UNCHANGED <<products, variants, orders, images, handlers>>

\* what an update request may send as price, and as quantity: values that
\* pass validation and one that does not
RequestPrices == { InitPrice[p] : p \in ProductIds }

RequestQuantities == {-1, 0, MaxQty}

\* validateUpdateProduct: price optional isFloat({ min: 0 }), quantity
\* optional isInt({ min: 0 })
validateUpdateProduct(price, quantity) ==
    /\ price = Unset \/ price[1] >= 0
    /\ quantity = Unset \/ quantity[1] >= 0

\* updateData: only the fields the body carries; quantity brings status
ApplyProductUpdate(product, price, quantity, isActive) ==
    [product EXCEPT
       !.price = IF price # Unset THEN price[1] ELSE @,
       !.quantity = IF quantity # Unset THEN quantity[1] ELSE @,
       !.status = IF quantity # Unset THEN StatusFor(quantity[1]) ELSE @,
       !.isActive = IF isActive # Unset THEN isActive[1] ELSE @]

\* PUT /api/admin/products/:id
UpdateProduct(productId, price, quantity, isActive) ==
    /\ IF ~validateUpdateProduct(price, quantity)
       THEN /\ last' = Response("product_update", "validation", 0, 0)
            /\ UNCHANGED products
       ELSE IF productId \notin ProductIds
       THEN /\ last' = Response("product_update", "not_found", 0, 0)
            /\ UNCHANGED products
       ELSE /\ products' = [products EXCEPT ![productId] =
                   ApplyProductUpdate(@, price, quantity, isActive)]
            /\ last' = Response("product_update", "updated", 0, 0)
    /\ UNCHANGED <<variants, orders, images, handlers>>

\* DELETE /api/admin/products/:id: a soft delete
DeleteProduct(productId) ==
    /\ IF productId \notin ProductIds
       THEN /\ last' = Response("product_delete", "not_found", 0, 0)
            /\ UNCHANGED products
       ELSE /\ products' = [products EXCEPT ![productId].isActive = FALSE]
            /\ last' = Response("product_delete", "deleted", 0, 0)
    /\ UNCHANGED <<variants, orders, images, handlers>>

\* the product ids the admin requests of SpecAdmin name: the product the
\* orders are placed on and an id without a row
AdminProductIds == ConcProductIds \cup (RequestProductIds \ ProductIds)

AdminUpdateOrderStatus(authorization, id, status) ==
    AdminRoute(authorization, UpdateOrderStatus(id, status))

AdminUpdateProduct(authorization, productId, price, quantity, isActive) ==
    AdminRoute(authorization,
               UpdateProduct(productId, price, quantity, isActive))

AdminDeleteProduct(authorization, productId) ==
    AdminRoute(authorization, DeleteProduct(productId))

NextAdmin ==
    \/ \E items \in ConcRequests :
          Len(orders) < MaxAdminOrders /\ CreateOrder(items)
    \/ \E authorization \in Authorizations, id \in RequestOrderIds,
          status \in OrderStatuses :
          AdminUpdateOrderStatus(authorization, id, status)
    \/ \E authorization \in Authorizations, productId \in AdminProductIds,
          price \in Optional(RequestPrices),
          quantity \in Optional(RequestQuantities),
          isActive \in Optional(BOOLEAN) :
          AdminUpdateProduct(authorization, productId, price, quantity,
                             isActive)
    \/ \E authorization \in Authorizations, productId \in AdminProductIds :
          AdminDeleteProduct(authorization, productId)

SpecAdmin == InitStocked /\ [][NextAdmin]_vars

(***************************************************************************)
(* Stock under interleaving: order creation, interleaved status updates    *)
(* and admin updates of the stock of the product the orders compete for.   *)
(* The product update writes the request's own values, so its findUnique   *)
(* and its update behave as one step.                                      *)
(***************************************************************************)
\* the order requests of SpecStock: those of SpecConc and a line that
\* selects a color and size
StockRequests ==
    ConcRequests \cup
    { << [productId |-> p, quantity |-> q,
          selectedColor |-> "Red", selectedSize |-> "M"] >> :
        p \in ConcProductIds, q \in 1..MaxLineQty }

NextStock ==
    \/ \E items \in StockRequests :
          Len(orders) < MaxStockOrders /\ CreateOrder(items)
    \/ \E h \in HandlerIds, id \in RequestOrderIds :
          BeginUpdateOrderStatus(h, id, ORDER_STATUS.PAID)
    \/ \E h \in HandlerIds : CommitDeduction(h)
    \/ \E h \in HandlerIds : CommitUpdate(h)
    \/ \E productId \in ConcProductIds,
          quantity \in Optional(RequestQuantities) :
          UpdateProduct(productId, Unset, quantity, Unset)

SpecStock == InitStocked /\ [][NextStock]_vars

(***************************************************************************)
(* POST /api/orders, interleaved.  The handler awaits the product query,   *)
(* then for every line the findFirst and, when it found nothing, the       *)
(* create of findOrCreateProductVariant, and at last the $transaction.     *)
(* Another request can be served at each await.                            *)
(***************************************************************************)
MaxVariantOrders == 2

\* the seeded products' names, read by findUnique({ select: { name } })
ProductName == [p \in ProductIds |-> IF p = 1 THEN "Basic Tee" ELSE "Wool Cap"]

\* s.toUpperCase().replace(/\s+/g, '-') on the strings in use
UpperHyphen(s) ==
    CASE s = "Basic Tee" -> "BASIC-TEE"
      [] s = "Wool Cap"  -> "WOOL-CAP"
      [] s = "Red"       -> "RED"
      [] s = "M"         -> "M"
      [] OTHER           -> s

\* `${NAME}-${COLOR}-${SIZE}`
Sku(productId, color, size) ==
    UpperHyphen(ProductName[productId]) \o "-" \o UpperHyphen(color)
        \o "-" \o UpperHyphen(size)

SkuTaken_NoConstraint(vs, sku) == FALSE

\* the unique index on ProductVariant.sku: a row of any state holds the sku
SkuTaken(vs, sku) ==
    \E v \in DOMAIN vs : Sku(vs[v].productId, vs[v].color, vs[v].size) = sku

Creating(pc, items, i, processedItems, totalAmount) ==
    [pc |-> pc, items |-> items, i |-> i, processedItems |-> processedItems,
     totalAmount |-> totalAmount]

Created(items, result) ==
    [pc |-> "done", items |-> items, result |-> result]

\* processedItems.push and the next turn of the loop, or the transaction
\* after the last line
NextLine(c, productVariantId) ==
    LET item == c.items[c.i]
        unitPrice == products[item.productId].price
        processedItems ==
            Append(c.processedItems,
               [productId |-> item.productId,
                productVariantId |-> productVariantId,
                quantity |-> item.quantity,
                unitPrice |-> unitPrice,
                selectedColor |-> item.selectedColor,
                selectedSize |-> item.selectedSize])
        totalAmount == c.totalAmount + ItemTotal(unitPrice, item.quantity)
    IN
    Creating(IF c.i = Len(c.items) THEN "insert" ELSE "find",
             c.items, c.i + 1, processedItems, totalAmount)

\* up to the first await of the loop: prisma.product.findMany and the 400
BeginCreateOrder(h, items) ==
    /\ handlers[h].pc \in {"idle", "done"}
    /\ Len(orders) < MaxVariantOrders
    /\ handlers' = [handlers EXCEPT ![h] =
         IF ProductCountMismatch(items)
         THEN Created(items, "product_not_found")
         ELSE Creating("find", items, 1, <<>>, 0)]
    /\ UNCHANGED <<products, variants, orders, images, last>>

\* one line up to its next await: the product-level check, or findFirst
\* and the check of the variant it found
FindVariant(h) ==
    /\ handlers[h].pc = "find"
    /\ LET c == handlers[h]
           item == c.items[c.i]
           found == MatchingVariants(variants, item.productId,
                        item.selectedColor, item.selectedSize)
       IN
       handlers' = [handlers EXCEPT ![h] =
         IF ~HasSelection(item)
         THEN IF ProductShort(products[item.productId], item)
              THEN Created(c.items, "insufficient")
              ELSE NextLine(c, NoId)
         ELSE IF found = {}
              THEN [c EXCEPT !.pc = "create"]
              ELSE IF VariantShort(variants[Min(found)], item)
                   THEN Created(c.items, "insufficient")
                   ELSE NextLine(c, Min(found))]
    /\ UNCHANGED <<products, variants, orders, images, last>>

\* prisma.productVariant.create after findFirst found nothing: the insert
\* throws when the sku is taken, else the new row goes through the
\* inventory check
CreateVariant(h) ==
    /\ handlers[h].pc = "create"
    /\ LET c == handlers[h]
           item == c.items[c.i]
           variant == NewVariant(item.productId, item.selectedColor,
                          item.selectedSize)
       IN
       IF SkuTaken(variants, Sku(item.productId, item.selectedColor,
                                 item.selectedSize))
       THEN /\ handlers' = [handlers EXCEPT ![h] =
                              Created(c.items, "conflict")]
            /\ UNCHANGED variants
       ELSE /\ variants' = Append(variants, variant)
            /\ handlers' = [handlers EXCEPT ![h] =
                 IF VariantShort(variant, item)
                 THEN Created(c.items, "insufficient")
                 ELSE NextLine(c, Len(variants) + 1)]
    /\ UNCHANGED <<products, orders, images, last>>

\* prisma.$transaction with the nested create
InsertOrder(h) ==
    /\ handlers[h].pc = "insert"
    /\ orders' = OrderTransaction(orders,
                     NewOrder([totalAmount |-> handlers[h].totalAmount,
                               items |-> handlers[h].processedItems]), 0)
    /\ handlers' = [handlers EXCEPT ![h] =
                      Created(handlers[h].items, "created")]
    /\ UNCHANGED <<products, variants, images, last>>

\* one-line order requests on every product, with and without a color
\* and size
VariantRequests ==
    { << [productId |-> p, quantity |-> q,
          selectedColor |-> sel[1], selectedSize |-> sel[2]] >> :
        p \in ProductIds, q \in 1..MaxLineQty, sel \in Selections }

NextVariants ==
    \/ \E h \in HandlerIds, items \in VariantRequests :
          BeginCreateOrder(h, items)
    \/ \E h \in HandlerIds : FindVariant(h)
    \/ \E h \in HandlerIds : CreateVariant(h)
    \/ \E h \in HandlerIds : InsertOrder(h)

\* a fully stocked catalogue; product 1 may have its Red/M variant already
InitVariants ==
    /\ Init
    /\ \A p \in ProductIds :
          products[p].quantity = MaxQty /\ products[p].isActive

SpecVariants == InitVariants /\ [][NextVariants]_vars

(***************************************************************************)
(* The status route behind its validators, and the order counts of the     *)
(* dashboard.                                                              *)
(***************************************************************************)
MaxDashboardOrders == 2

\* status values a request body may carry: the three of the enum and two
\* that are not in it
RequestStatuses == OrderStatuses \cup {"cancelled", "delivered"}

\* param('id').isInt({ min: 1 })
validateOrderId(id) == id >= 1

validateUpdateOrderStatus_AnyString(status) == TRUE

\* body('status').isIn(['new', 'paid', 'ready_for_delivery'])
validateUpdateOrderStatus(status) ==
    status \in {"new", "paid", "ready_for_delivery"}

\* PUT /admin/orders/:id/status with its validators: handleValidationErrors
\* answers 400 and the handler is not entered
PutOrderStatus(id, status) ==
    IF validateOrderId(id) /\ validateUpdateOrderStatus(status)
    THEN UpdateOrderStatus(id, status)
    ELSE /\ last' = Response("status", "validation_error", 0, 0)
         /\ UNCHANGED <<products, variants, orders, images, handlers>>

\* prisma.order.count({ where: { status } })
CountOrders(status) ==
    Cardinality({ id \in DOMAIN orders : orders[id].status = status })

\* prisma.order.count()
totalOrders == Len(orders)

newOrders == CountOrders(ORDER_STATUS.NEW)

paidOrders == CountOrders(ORDER_STATUS.PAID)

readyOrders == CountOrders(ORDER_STATUS.READY_FOR_DELIVERY)

\* GET /admin/dashboard: the four order counts of its response
GetDashboard ==
    /\ last' = [op |-> "dashboard", result |-> "ok", line |-> 0,
                created |-> 0, totalOrders |-> totalOrders,
                newOrders |-> newOrders, paidOrders |-> paidOrders,
                readyOrders |-> readyOrders]
    /\ UNCHANGED <<products, variants, orders, images, handlers>>

NextDashboard ==
    \/ \E items \in ConcRequests :
          Len(orders) < MaxDashboardOrders /\ CreateOrder(items)
    \/ \E id \in 0..(Len(orders) + 1), status \in RequestStatuses :
          PutOrderStatus(id, status)
    \/ GetDashboard

SpecDashboard == InitStocked /\ [][NextDashboard]_vars

(***************************************************************************)
(* Orders and status updates one request at a time on the fully stocked    *)
(* catalogue: every product starts with MaxQty, so what has been deducted  *)
(* can be read off the product rows.                                       *)
(***************************************************************************)
NextLedger ==
    \/ \E items \in ConcRequests :
          Len(orders) < MaxLedgerOrders /\ CreateOrder(items)
    \/ \E id \in RequestOrderIds, status \in OrderStatuses :
          UpdateOrderStatus(id, status)

SpecLedger == InitStocked /\ [][NextLedger]_vars

(***************************************************************************)
(* Properties of the order and inventory flow, one request at a time.      *)
(***************************************************************************)
\* the order ids on which this step is a fresh transition into paid
BecomesPaid ==
    { id \in DOMAIN orders :
        /\ orders[id].status # ORDER_STATUS.PAID
        /\ orders'[id].status = ORDER_STATUS.PAID }

ProductsOf(order) == { order.items[i].productId : i \in DOMAIN order.items }

\* C2: when a non-paid order becomes paid, every line without a variant
\* lowers its product's quantity by exactly the line's quantity, and the
\* quantity and status of products the order does not reference are unchanged.
C2_PaidDeductsProductLines ==
    [][\A id \in BecomesPaid :
         /\ \A i \in DOMAIN orders[id].items :
              LET item == orders[id].items[i] IN
              item.productVariantId = NoId =>
                products'[item.productId].quantity
                    = products[item.productId].quantity - item.quantity
         /\ \A p \in ProductIds \ ProductsOf(orders[id]) :
              /\ products'[p].quantity = products[p].quantity
              /\ products'[p].status = products[p].status]_vars

C2_Witness ==
    /\ last.op = "status" /\ last.result = "deducted"
    /\ \E id \in DOMAIN orders :
         /\ orders[id].status = ORDER_STATUS.PAID
         /\ \E i \in DOMAIN orders[id].items :
              /\ orders[id].items[i].productVariantId = NoId
              /\ orders[id].items[i].quantity = MaxLineQty
         /\ ProductIds \ ProductsOf(orders[id]) # {}

\* C3: when an order becomes paid, every line that has a productVariantId
\* lowers that ProductVariant's quantity by exactly the line's quantity.
C3_PaidDeductsVariantLines ==
    [][\A id \in BecomesPaid :
         \A i \in DOMAIN orders[id].items :
            LET item == orders[id].items[i] IN
            item.productVariantId # NoId =>
              variants'[item.productVariantId].quantity
                  = variants[item.productVariantId].quantity
                      - item.quantity]_vars

\* C4: a status update that is not a fresh transition into paid changes only
\* the order's status; products and variants are untouched, so repeating
\* paid on a paid order never deducts again.
C4_OtherUpdatesTouchOnlyStatus ==
    [][\A id \in DOMAIN orders, status \in OrderStatuses :
         ( /\ UpdateOrderStatus(id, status)
           /\ (status # ORDER_STATUS.PAID
                 \/ orders[id].status = ORDER_STATUS.PAID) )
         => /\ products' = products
            /\ variants' = variants
            /\ orders' = [orders EXCEPT ![id].status = status]]_vars

C4_Witness ==
    /\ last.op = "status" /\ last.result = "already_paid"
    /\ \E id \in DOMAIN orders : orders[id].status = ORDER_STATUS.PAID

\* C5: a transition into paid from a non-paid status with at least one line
\* whose product has less stock than the line asks for is answered
\* 'Insufficient inventory'; the order and every product stay as they were.
C5_ShortLineAbortsTransition ==
    [][\A id \in DOMAIN orders :
         ( /\ UpdateOrderStatus(id, ORDER_STATUS.PAID)
           /\ orders[id].status # ORDER_STATUS.PAID
           /\ \E i \in DOMAIN orders[id].items :
                products[orders[id].items[i].productId].quantity
                    < orders[id].items[i].quantity )
         => /\ last'.result = "insufficient"
            /\ orders' = orders
            /\ products' = products
            /\ variants' = variants]_vars

\* the failing line is the second one: the first line passed its check
C5_Witness ==
    /\ last.op = "status" /\ last.result = "insufficient" /\ last.line = 2
    /\ \E id \in DOMAIN orders :
         /\ orders[id].status # ORDER_STATUS.PAID
         /\ Len(orders[id].items) = 2
         /\ products[orders[id].items[1].productId].quantity
              >= orders[id].items[1].quantity
         /\ products[orders[id].items[2].productId].quantity
              < orders[id].items[2].quantity

\* the stock of the pool an order line is checked against at creation: the
\* active variant's quantity when color and size are both given (0 when the
\* variant has yet to be created), Product.quantity otherwise
PoolStock(line) ==
    IF line.selectedColor # NoSel /\ line.selectedSize # NoSel
    THEN LET found == MatchingVariants(variants, line.productId,
                          line.selectedColor, line.selectedSize)
         IN IF found = {} THEN 0 ELSE variants[Min(found)].quantity
    ELSE products[line.productId].quantity

\* C6: no order is persisted from a request in which some line asks for more
\* than the stock of its pool: the lines of every order that is persisted
\* all fit the pool they were checked against, whatever their position.
C6_NoOrderFromShortRequest ==
    [][Len(orders') > Len(orders) =>
         /\ Len(orders') = Len(orders) + 1
         /\ \A i \in DOMAIN orders'[Len(orders')].items :
              LET line == orders'[Len(orders')].items[i] IN
              PoolStock(line) >= line.quantity]_vars

\* a request was refused on its second line and left no order behind
C6_Witness ==
    /\ last.op = "create" /\ last.result = "insufficient" /\ last.line = 2
    /\ orders = <<>>

\* C7 (as stated): a request that fails an inventory check leaves the whole
\* data store, the ProductVariant rows included, as it was.
C7_FailedRequestChangesNothing ==
    [][(last'.op = "create" /\ last'.result = "insufficient")
         => UNCHANGED <<products, variants, orders>>]_vars

\* C7 (amended): a request that fails an inventory check persists no order
\* and changes no product and no existing variant; all it may leave behind
\* is new active ProductVariant rows with quantity 0, for selections that had
\* no active variant.
C7_FailedRequestOnlyAddsEmptyVariants ==
    [][(last'.op = "create" /\ last'.result = "insufficient")
         => /\ UNCHANGED <<products, orders>>
            /\ Len(variants') = Len(variants) + last'.created
            /\ \A v \in DOMAIN variants : variants'[v] = variants[v]
            /\ \A v \in DOMAIN variants' \ DOMAIN variants :
                 /\ variants'[v].quantity = 0
                 /\ variants'[v].isActive
                 /\ MatchingVariants(variants, variants'[v].productId,
                        variants'[v].color, variants'[v].size) = {}]_vars

C7_Witness ==
    /\ last.op = "create" /\ last.result = "insufficient"
    /\ last.created >= 1
    /\ \E v \in DOMAIN variants : variants[v].quantity = 0

C9_NotFoundIffSomeProductUnavailable ==
    [][\A items \in Requests :
         CreateOrder(items) =>
           ( last'.result = "product_not_found"
               <=> \E i \in DOMAIN items :
                      \/ items[i].productId \notin ProductIds
                      \/ ~products[items[i].productId].isActive
                      \/ products[items[i].productId].status
                             # "available" )]_vars

(***************************************************************************)
(* Properties of interleaved status updates.                               *)
(***************************************************************************)
\* the quantity the lines of a read order ask of product p
Asked(existingOrder, p) ==
    SumSeq([i \in DOMAIN existingOrder.items |->
              IF existingOrder.items[i].productId = p
              THEN existingOrder.items[i].quantity ELSE 0])

\* Two finished mark-as-paid requests on different non-paid orders raced for
\* product p: both read the same quantity of p (neither saw the other's
\* deduction), each order fits that quantity, the two together do not.
RacedFor(h1, h2, p) ==
    LET a == handlers[h1]
        b == handlers[h2]
    IN
    /\ a.pc = "done" /\ b.pc = "done"
    /\ a.result # "not_found" /\ b.result # "not_found"
    /\ a.status = ORDER_STATUS.PAID /\ b.status = ORDER_STATUS.PAID
    /\ a.id # b.id
    /\ a.existingOrder.status # ORDER_STATUS.PAID
    /\ b.existingOrder.status # ORDER_STATUS.PAID
    /\ \E i \in DOMAIN a.existingOrder.items, j \in DOMAIN b.existingOrder.items :
         /\ a.existingOrder.items[i].productId = p
         /\ b.existingOrder.items[j].productId = p
         /\ a.existingOrder.items[i].product.quantity
              = b.existingOrder.items[j].product.quantity
         /\ Asked(a.existingOrder, p)
              <= a.existingOrder.items[i].product.quantity
         /\ Asked(b.existingOrder, p)
              <= a.existingOrder.items[i].product.quantity
         /\ Asked(a.existingOrder, p) + Asked(b.existingOrder, p)
              > a.existingOrder.items[i].product.quantity

\* C1: of two concurrent mark-as-paid requests on different non-paid orders
\* whose lines for a shared product each fit its quantity but together
\* exceed it, exactly one succeeds and the other is answered 'Insufficient
\* inventory'; both never succeed.
C1_ExactlyOneSucceeds ==
    \A h1 \in HandlerIds, h2 \in HandlerIds, p \in ProductIds :
       (h1 # h2 /\ RacedFor(h1, h2, p)) =>
         \/ /\ handlers[h1].result = "deducted"
            /\ handlers[h2].result = "insufficient"
         \/ /\ handlers[h1].result = "insufficient"
            /\ handlers[h2].result = "deducted"

(***************************************************************************)
(* Properties of the image routes.                                         *)
(***************************************************************************)
\* C10: after any sequence of image create, update and delete requests, at
\* most one active image of a product has isPrimary = true.
C10_AtMostOneActivePrimary ==
    \A p \in ProductIds :
       Cardinality({ i \in ActiveImages(images, p) : images[i].isPrimary })
          <= 1

(***************************************************************************)
(* Properties of interleaved image requests.                               *)
(***************************************************************************)
\* handler h has completed a request that sets its image primary
SetPrimaryDone(h) ==
    /\ handlers[h].pc = "done"
    /\ handlers[h].result \in {"created", "updated"}
    /\ handlers[h].isPrimary = <<TRUE>>

PrimaryImages(productId) ==
    { i \in DOMAIN images :
        images[i].productId = productId /\ images[i].isPrimary }

\* C11: once two set-primary requests (PUT with isPrimary true, or POST with
\* isPrimary true) on different images of one product have both completed,
\* exactly one image of that product is primary, whatever the interleaving
\* of their un-flag and flag writes.
C11_OnePrimaryAfterConcurrentSetPrimary ==
    \A h1, h2 \in HandlerIds :
        ( /\ h1 # h2
          /\ SetPrimaryDone(h1)
          /\ SetPrimaryDone(h2)
          /\ handlers[h1].productId = handlers[h2].productId
          /\ handlers[h1].imageId # handlers[h2].imageId )
        => Cardinality(PrimaryImages(handlers[h1].productId)) = 1

(***************************************************************************)
(* Properties of the image routes, one request at a time (continued).      *)
(***************************************************************************)
\* the active images of i's product other than i, before the step
OtherActive(i) ==
    { j \in DOMAIN images :
        /\ j # i
        /\ images[j].productId = images[i].productId
        /\ images[j].isActive }

C13_LastPrimaryImageCannotBeDeleted ==
    [][ \A productId \in ProductIds, imageId \in DOMAIN images :
          ( /\ ImageExists(productId, imageId)
            /\ images[imageId].isPrimary
            /\ ActiveImages(images, productId) = {imageId}
            /\ DeleteImage(productId, imageId) )
          => /\ images'[imageId].isActive
             /\ last'.result # "deleted"
    ]_vars

\* the array names every image once and only active images of the product
ValidReorder(productId, imageIds) ==
    /\ \A k \in DOMAIN imageIds : imageIds[k] \in ActiveImages(images, productId)
    /\ \A k, l \in DOMAIN imageIds : imageIds[k] = imageIds[l] => k = l

\* C14: PUT /admin/products/:id/images/reorder reaches the reorder handler,
\* and after it the image imageIds[k] has sortOrder k (counted from 0) while
\* every image not named keeps its sortOrder.
C14_ReorderAssignsIndices ==
    [][ \A productId \in ProductIds, imageIds \in ImageIdLists :
          ( /\ ValidReorder(productId, imageIds)
            /\ PutImagesReorder(productId, imageIds) )
          => /\ last'.op = "image_reorder"
             /\ \A k \in DOMAIN imageIds :
                   images'[imageIds[k]].sortOrder = k - 1
             /\ \A i \in DOMAIN images :
                   (\A k \in DOMAIN imageIds : imageIds[k] # i)
                   => images'[i].sortOrder = images[i].sortOrder
    ]_vars

(***************************************************************************)
(* Properties of the order life cycle.                                     *)
(***************************************************************************)
\* C15: the status of an order only ever moves from new to paid or from
\* paid to ready_for_delivery: never backwards, never past a stage.
C15_StatusMovesForwardOneStage ==
    [][ \A id \in DOMAIN orders :
          orders'[id].status # orders[id].status
          => \/ /\ orders[id].status = ORDER_STATUS.NEW
                /\ orders'[id].status = ORDER_STATUS.PAID
             \/ /\ orders[id].status = ORDER_STATUS.PAID
                /\ orders'[id].status = ORDER_STATUS.READY_FOR_DELIVERY
    ]_vars

(***************************************************************************)
(* Properties of the stock under interleaving.                             *)
(***************************************************************************)
\* C16: no Product row and no ProductVariant row ever has a negative
\* quantity, whatever the interleaving of order creations, mark-as-paid
\* transitions and validated admin stock updates.
C16_QuantitiesNeverNegative ==
    /\ \A p \in ProductIds : products[p].quantity >= 0
    /\ \A v \in DOMAIN variants : variants[v].quantity >= 0

\* two orders were marked paid by overlapping handlers that read the same
\* stock, after an admin update of that stock, and the stock is used up
C16_Witness ==
    /\ last.op = "product_update"
    /\ last.result = "updated"
    /\ variants # <<>>
    /\ \E h1, h2 \in HandlerIds, p \in ProductIds :
          /\ h1 # h2
          /\ handlers[h1].pc = "done" /\ handlers[h1].result = "deducted"
          /\ handlers[h2].pc = "done" /\ handlers[h2].result = "deducted"
          /\ handlers[h1].id # handlers[h2].id
          /\ Asked(handlers[h1].existingOrder, p) > 0
          /\ Asked(handlers[h2].existingOrder, p) > 0
          /\ products[p].quantity = 0

(***************************************************************************)
(* Properties of the order rows.                                           *)
(***************************************************************************)
\* C17: every order has at least one item and every item a quantity of at
\* least 1 (items are rows nested in their order, so each belongs to an
\* existing order); a step adds at most one order, complete, and only as
\* the answer 'created'; a request whose insert fails, like every other
\* failed request, leaves the order rows as they were.
C17_OrderInsertedWholeOrNotAtAll ==
    /\ [](\A id \in DOMAIN orders :
            /\ Len(orders[id].items) >= 1
            /\ \A i \in DOMAIN orders[id].items :
                  orders[id].items[i].quantity >= 1)
    /\ [][ /\ (last'.op = "create" /\ last'.result # "created")
              => orders' = orders
           /\ Len(orders') # Len(orders)
              => /\ Len(orders') = Len(orders) + 1
                 /\ last'.op = "create"
                 /\ last'.result = "created"
                 /\ SubSeq(orders', 1, Len(orders)) = orders
       ]_vars

\* an insert failed after an order of two lines had been created
C17_Witness ==
    /\ last.op = "create"
    /\ last.result = "failed"
    /\ Len(orders) = 1
    /\ Len(orders[1].items) = MaxLines

\* C18: whatever the request, an existing order keeps its totalAmount and
\* every field of every one of its items: a status update changes only
\* status, and a price update or soft delete of a product changes no order.
C18_OnlyStatusChangesAfterCreation ==
    [][ \A id \in DOMAIN orders :
          /\ id \in DOMAIN orders'
          /\ orders'[id].totalAmount = orders[id].totalAmount
          /\ orders'[id].items = orders[id].items
          /\ (last'.op # "status" => orders'[id].status = orders[id].status)
    ]_vars

\* a status update has just been applied to an order whose product has
\* since been repriced and soft-deleted
C18_Witness ==
    /\ last.op = "status"
    /\ last.result \in {"deducted", "updated", "already_paid"}
    /\ \E id \in DOMAIN orders :
          /\ orders[id].status # ORDER_STATUS.NEW
          /\ \E i \in DOMAIN orders[id].items :
                LET product == products[orders[id].items[i].productId] IN
                /\ product.price # orders[id].items[i].unitPrice
                /\ ~product.isActive
                /\ orders[id].totalAmount
                     = orders[id].items[i].unitPrice
                         * orders[id].items[i].quantity

(***************************************************************************)
(* Properties of the admin router.                                         *)
(***************************************************************************)
\* headers without a token, or with a token whose signature or expiry does
\* not verify
BadAuthorizations ==
    { a \in Authorizations :
        a = Unset \/ a[1].signature # "valid" \/ a[1].expired }

\* C19: a request to a route of the admin router that carries no token, or
\* a token whose signature or expiry does not verify, is answered 401 and
\* leaves every table of the data store as it was: every step either is
\* such an answer, or is not the step of any request with such a header.
C19_AdminRoutesNeedAValidToken ==
    [][ \/ /\ last'.result = "unauthorized"
           /\ UNCHANGED <<products, variants, orders, images>>
        \/ \A authorization \in BadAuthorizations :
              /\ \A id \in RequestOrderIds, status \in OrderStatuses :
                    ~AdminUpdateOrderStatus(authorization, id, status)
              /\ \A productId \in AdminProductIds,
                    price \in Optional(RequestPrices),
                    quantity \in Optional(RequestQuantities),
                    isActive \in Optional(BOOLEAN) :
                    ~AdminUpdateProduct(authorization, productId, price,
                                        quantity, isActive)
              /\ \A productId \in AdminProductIds :
                    ~AdminDeleteProduct(authorization, productId)
    ]_vars

\* a request was turned away with 401 while an order and its product exist
C19_Witness ==
    /\ last.op = "admin"
    /\ last.result = "unauthorized"
    /\ orders # <<>>
    /\ \E p \in ProductIds : products[p].isActive

(***************************************************************************)
(* Properties of the variant rows.                                         *)
(***************************************************************************)
\* the lines of order id whose product has less stock than the line asks
ShortOfProduct(id) ==
    { i \in DOMAIN orders[id].items :
        products[orders[id].items[i].productId].quantity
            < orders[id].items[i].quantity }

C21_StatusFollowsQuantity ==
    \A p \in ProductIds :
        /\ products[p].status \in {"available", "sold_out"}
        /\ products[p].status = "available" <=> products[p].quantity > 0

\* a deduction has emptied a product, leaving it sold out, while another
\* handler that read the stock before is still in flight
C21_Witness ==
    \E p \in ProductIds, h1, h2 \in HandlerIds :
        /\ products[p].quantity = 0
        /\ products[p].status = "sold_out"
        /\ handlers[h1].pc = "done" /\ handlers[h1].result = "deducted"
        /\ Asked(handlers[h1].existingOrder, p) > 0
        /\ handlers[h2].pc = "tx"
        /\ last.op = "product_update"

(***************************************************************************)
(* Properties of the lazily created variants.                              *)
(***************************************************************************)
\* the lines of a request that select a color and size for which their
\* product has no active variant yet
UnseenLines(items) ==
    { i \in DOMAIN items :
        /\ items[i].selectedColor # NoSel
        /\ items[i].selectedSize # NoSel
        /\ ~\E v \in DOMAIN variants :
              /\ variants[v].productId = items[i].productId
              /\ variants[v].color = items[i].selectedColor
              /\ variants[v].size = items[i].selectedSize
              /\ variants[v].isActive }

\* a created order names, on each line with a selection, an active variant
\* of that product, color and size that existed before the request, and
\* the request created no variant
FoundVariantIsUsed ==
    Len(orders') > Len(orders)
    => /\ variants' = variants
       /\ \A i \in DOMAIN orders'[Len(orders')].items :
             LET item == orders'[Len(orders')].items[i] IN
             item.selectedColor # NoSel
             => /\ item.productVariantId \in DOMAIN variants
                /\ variants[item.productVariantId].productId = item.productId
                /\ variants[item.productVariantId].color = item.selectedColor
                /\ variants[item.productVariantId].size = item.selectedSize
                /\ variants[item.productVariantId].isActive

\* a request that adds variant rows adds exactly one, active, with quantity
\* 0, for a triple that had no active variant, and is answered
\* 'Insufficient inventory' without creating an order
MissingVariantIsCreatedEmpty ==
    variants' # variants
    => /\ Len(variants') = Len(variants) + 1
       /\ SubSeq(variants', 1, Len(variants)) = variants
       /\ variants'[Len(variants')].quantity = 0
       /\ variants'[Len(variants')].isActive
       /\ ~\E v \in DOMAIN variants :
             /\ variants[v].productId = variants'[Len(variants')].productId
             /\ variants[v].color = variants'[Len(variants')].color
             /\ variants[v].size = variants'[Len(variants')].size
             /\ variants[v].isActive
       /\ last'.op = "create"
       /\ last'.result = "insufficient"
       /\ orders' = orders

OneLineRequests == { << line >> : line \in Line }

OpenDemand(p) ==
    SumSeq([id \in DOMAIN orders |->
              IF orders[id].status = ORDER_STATUS.NEW
              THEN SumSeq([i \in DOMAIN orders[id].items |->
                             IF orders[id].items[i].productId = p
                             THEN orders[id].items[i].quantity ELSE 0])
              ELSE 0])

\* C23: a successful order creation changes no product row and no existing
\* variant row, and a request for a product without color/size is created
\* whenever the product is orderable and has at least the line's quantity
\* now, whatever the orders created before it ask for.
C23_CreationReservesNothing ==
    [][ /\ Len(orders') > Len(orders)
           => /\ products' = products
              /\ \A v \in DOMAIN variants : variants'[v] = variants[v]
        /\ \A items \in ConcRequests :
              ( /\ CreateOrder(items)
                /\ products[items[1].productId].isActive
                /\ products[items[1].productId].status = "available"
                /\ products[items[1].productId].quantity
                     >= items[1].quantity )
              => /\ last'.result = "created"
                 /\ Len(orders') = Len(orders) + 1
    ]_vars

\* an order has just been created although the unpaid orders on its
\* product together ask for more than the product has
C23_Witness ==
    /\ last.op = "create"
    /\ last.result = "created"
    /\ \E p \in ProductIds :
          /\ OpenDemand(p) > products[p].quantity
          /\ \A id \in DOMAIN orders :
                /\ orders[id].status = ORDER_STATUS.NEW
                /\ orders[id].items[1].productId = p
                /\ orders[id].items[1].quantity <= products[p].quantity
    /\ Len(orders) >= 2

(***************************************************************************)
(* Properties of repeated status transitions.                              *)
(***************************************************************************)
\* the order ids that this step moves out of paid
LeavesPaid ==
    { id \in DOMAIN orders :
        /\ orders[id].status = ORDER_STATUS.PAID
        /\ orders'[id].status # ORDER_STATUS.PAID }

\* C24: a step that moves an order out of paid changes no product row, and
\* every transition into paid from a non-paid status, the first as well as
\* any later one, lowers each referenced product by the line's quantity.
C24_RepeatedPaidDeductsAgain ==
    [][ /\ LeavesPaid # {} => products' = products
        /\ \A id \in BecomesPaid :
              \A i \in DOMAIN orders[id].items :
                 products'[orders[id].items[i].productId].quantity
                   = products[orders[id].items[i].productId].quantity
                       - orders[id].items[i].quantity
    ]_vars

\* the only order, of one unit, is paid and its product has lost two units:
\* the order went new -> paid -> new -> paid
C24_Witness ==
    /\ Len(orders) = 1
    /\ orders[1].status = ORDER_STATUS.PAID
    /\ orders[1].items[1].quantity = 1
    /\ products[orders[1].items[1].productId].quantity = MaxQty - 2
    /\ last.op = "status"
    /\ last.result = "deducted"

\* what the orders that this step freshly moves into paid ask of product p
PaidDemand(p) ==
    SumSeq([id \in DOMAIN orders |->
              IF /\ orders[id].status # ORDER_STATUS.PAID
                 /\ orders'[id].status = ORDER_STATUS.PAID
              THEN SumSeq([i \in DOMAIN orders[id].items |->
                             IF orders[id].items[i].productId = p
                             THEN orders[id].items[i].quantity ELSE 0])
              ELSE 0])

SoldOutIsNotOrderable ==
    /\ \A p \in ProductIds :
          (products[p].quantity > 0 /\ products'[p].quantity = 0)
          => products'[p].status = "sold_out"
    /\ \A items \in StockRequests :
          ( /\ products[items[1].productId].quantity = 0
            /\ CreateOrder(items) )
          => /\ last'.result = "product_not_found"
             /\ UNCHANGED <<products, variants, orders>>

\* a completed mark-as-paid request has written quantity 0 to product p
EmptiedByPayment(p) ==
    \E h \in HandlerIds :
        /\ handlers[h].pc = "done"
        /\ handlers[h].result = "deducted"
        /\ \E i \in DOMAIN handlers[h].existingOrder.items :
              LET item == handlers[h].existingOrder.items[i] IN
              /\ item.productId = p
              /\ item.product.quantity - item.quantity = 0

\* C26: once a mark-as-paid transition has taken a product to quantity 0
\* the product is sold out and every order request for it is answered
\* 'Product not found' and persists nothing, until an admin product update
\* sets its quantity above 0: no other step changes the row of a product
\* whose quantity is 0.
C26_SoldOutUntilRestocked ==
    [][ /\ SoldOutIsNotOrderable
        /\ \A p \in ProductIds :
              ( /\ EmptiedByPayment(p)
                /\ products[p].quantity = 0
                /\ products'[p] # products[p] )
              => \E quantity \in Optional(RequestQuantities) :
                    UpdateProduct(p, Unset, quantity, Unset)
    ]_vars

(***************************************************************************)
(* Properties of soft-deleted products.                                    *)
(***************************************************************************)
\* C27: a product delete sets the product's isActive flag to false and
\* changes nothing else, neither in that row nor in any order, item or
\* variant; an order request for an inactive product is refused and adds
\* no order; a fresh transition into paid of an order on an inactive
\* product with enough stock goes through and lowers that product by the
\* line's quantity, the product staying inactive.
C27_SoftDeleteKeepsOrdersPayable ==
    [][ /\ (last'.op = "product_delete" /\ last'.result = "deleted")
           => /\ \E p \in ProductIds :
                    products' = [products EXCEPT ![p].isActive = FALSE]
              /\ orders' = orders
              /\ variants' = variants
        /\ \A items \in ConcRequests :
              (~products[items[1].productId].isActive /\ CreateOrder(items))
              => /\ last'.result = "product_not_found"
                 /\ orders' = orders
        /\ \A id \in DOMAIN orders :
              LET item == orders[id].items[1]
                  product == products[item.productId]
              IN
              ( /\ UpdateOrderStatus(id, ORDER_STATUS.PAID)
                /\ orders[id].status # ORDER_STATUS.PAID
                /\ ~product.isActive
                /\ product.quantity >= item.quantity )
              => /\ orders'[id].status = ORDER_STATUS.PAID
                 /\ products'[item.productId].quantity
                      = product.quantity - item.quantity
                 /\ ~products'[item.productId].isActive
    ]_vars

\* an order placed before its product was soft-deleted has just been paid
C27_Witness ==
    /\ last.op = "status"
    /\ last.result = "deducted"
    /\ \E id \in DOMAIN orders :
          /\ orders[id].status = ORDER_STATUS.PAID
          /\ ~products[orders[id].items[1].productId].isActive
          /\ products[orders[id].items[1].productId].quantity
               = MaxQty - orders[id].items[1].quantity

(***************************************************************************)
(* Lazily created variants under interleaving.                             *)
(***************************************************************************)
\* C28: at every moment of every interleaving of order requests, each
\* (product, color, size) has at most one active ProductVariant row.
C28_OneActiveVariantPerTriple ==
    \A p \in ProductIds, sel \in Selections :
        Cardinality(MatchingVariants(variants, p, sel[1], sel[2])) <= 1

\* two requests for the same triple both found no variant: one created
\* the row, the create of the other was refused
C28_Witness ==
    \E h1, h2 \in HandlerIds :
        /\ handlers[h1].pc = "done"
        /\ handlers[h1].result = "insufficient"
        /\ handlers[h2].pc = "done"
        /\ handlers[h2].result = "conflict"
        /\ HasSelection(handlers[h1].items[1])
        /\ handlers[h1].items[1].productId = handlers[h2].items[1].productId
        /\ handlers[h1].items[1].selectedColor
             = handlers[h2].items[1].selectedColor
        /\ handlers[h1].items[1].selectedSize
             = handlers[h2].items[1].selectedSize
        /\ Cardinality(MatchingVariants(variants,
               handlers[h1].items[1].productId,
               handlers[h1].items[1].selectedColor,
               handlers[h1].items[1].selectedSize)) = 1

(***************************************************************************)
(* The primary flag of a created image.                                    *)
(***************************************************************************)
\* C29: an image created with isPrimary false (or omitted, which the
\* handler defaults to false) is stored primary when its product has no
\* active image; when the product has an active image it is stored
\* non-primary and every existing image row is left as it was.
C29_FirstImageBecomesPrimary ==
    [][ \A productId \in ProductIds, sortOrder \in 0..MaxSort :
          CreateImage(productId, sortOrder, FALSE)
          => LET hasActive ==
                     \E i \in DOMAIN images :
                         /\ images[i].productId = productId
                         /\ images[i].isActive
                 newImage == images'[Len(images')]
             IN
             /\ Len(images') = Len(images) + 1
             /\ newImage.productId = productId
             /\ IF hasActive
                THEN /\ ~newImage.isPrimary
                     /\ \A i \in DOMAIN images : images'[i] = images[i]
                ELSE newImage.isPrimary
    ]_vars

\* a product whose only earlier image was inactive got a primary image,
\* and the image created after that one is not primary
C29_Witness ==
    /\ last.op = "image_create"
    /\ last.result = "created"
    /\ Len(images) = 3
    /\ \A i \in DOMAIN images : images[i].productId = 1
    /\ ~images[1].isActive
    /\ images[2].isActive /\ images[2].isPrimary
    /\ images[3].isActive /\ ~images[3].isPrimary

(***************************************************************************)
(* Order statuses and the dashboard counts.                                *)
(***************************************************************************)
OrderCountsAddUp ==
    /\ \A id \in DOMAIN orders :
          orders[id].status \in {"new", "paid", "ready_for_delivery"}
    /\ newOrders + paidOrders + readyOrders = totalOrders
    /\ last.op = "dashboard"
          => last.newOrders + last.paidOrders + last.readyOrders
               = last.totalOrders

OnlyEnumStatusesAreWritten ==
    /\ Len(orders') > Len(orders)
          => orders'[Len(orders')].status = "new"
    /\ \A id \in 0..(Len(orders) + 1),
          status \in {"cancelled", "delivered"} :
          PutOrderStatus(id, status)
          => /\ last'.result = "validation_error"
             /\ UNCHANGED <<products, variants, orders>>

====
